---------------------------- MODULE Spec2Model ----------------------------
(***************************************************************************)
(* A model of src/src/apps/cli.py: the `translate` command of the          *)
(* dream2nix command line.  One run of translate() is a sequence of steps  *)
(* separated by its four external calls (oracle query, translator build,   *)
(* translator execution, combined-sources build).  The state is the        *)
(* function's locals, the files it touches and the process exit code.      *)
(***************************************************************************)
EXTENDS Integers, Sequences, FiniteSets, TLC

\* Longest list of input paths given on the command line.
MaxInputs == 2

\* Longest build log, in chunks (see Chunks), fed to the hash extraction.
MaxChunks == 5
MaxEntries == 2

VARIABLES
  argv,                        \* sys.argv[1:] after the command word
  translators,                 \* the catalog loaded at import (lines 10-11)
  out,                         \* what list_translators prints, as bullets
  writes,                      \* history: the documents written to output
  args,                        \* the parsed command line (vars(args))
  disk0,                       \* history: the files as the run found them
  pc,                          \* position inside translate()
  exitCode,                    \* process exit status; -1 while running
  disk,                        \* the files at the possible lock-file paths
  tmp,                         \* the NamedTemporaryFile (inputJsonFile)
  link,                        \* the build-output symlink "translator"
  calls,                       \* external processes started so far, in order
  specialArgs,                 \* local of translate()
  inputFiles,                  \* local of translate()
  inputDirectories,            \* local of translate()
  output,                      \* local of translate()
  translatorInput,             \* local of translate()
  procEval,                    \* result of the oracle call
  translatorInputWithDefaults, \* local of translate()
  procBuild,                   \* result of the translator build
  translatorPath,              \* local of translate()
  procTranslate,               \* result of running the translator (discarded by the code)
  lock,                        \* local of translate(): the parsed lock file
  proc,                        \* result of the combined-sources build
  match                        \* result of re.search on proc.stderr

vars == <<argv, translators, out, writes, args, disk0, pc, exitCode, disk, tmp, link, calls, specialArgs, inputFiles,
          inputDirectories, output, translatorInput, procEval,
          translatorInputWithDefaults, procBuild, translatorPath,
          procTranslate, lock, proc, match>>

---------------------------------------------------------------------------
(* Generic helpers *)

RECURSIVE SeqsUpTo(_, _)
SeqsUpTo(S, n) ==
  IF n = 0 THEN {<<>>}
  ELSE LET shorter == SeqsUpTo(S, n - 1)
       IN  shorter \cup {Append(s, x) : s \in shorter, x \in S}

RECURSIVE Flatten(_)
Flatten(ss) == IF ss = <<>> THEN <<>> ELSE Head(ss) \o Flatten(Tail(ss))

SetMin(S) == CHOOSE x \in S : \A y \in S : x <= y
SetMax(S) == CHOOSE x \in S : \A y \in S : x >= y

\* filter(pred, seq): the subsequence of the elements in the set keep.
RECURSIVE filter(_, _)
filter(keep, s) ==
  IF s = <<>> THEN <<>>
  ELSE IF Head(s) \in keep THEN <<Head(s)>> \o filter(keep, Tail(s))
       ELSE filter(keep, Tail(s))

\* dict.update: d overlaid with u, u winning on a shared key.
DictUpdate(d, u) ==
  [k \in (DOMAIN d) \cup (DOMAIN u) |-> IF k \in DOMAIN u THEN u[k] ELSE d[k]]

EmptyDict == [k \in {} |-> ""]

---------------------------------------------------------------------------
(* The filesystem the input paths live in.  It does not change during a    *)
(* run.  "/dev/null" is a character device: it exists and is neither a     *)
(* regular file nor a directory.                                          *)

InputPaths == {"a.json", "b.json", "srcdir", "gone", "/dev/null"}

PathType ==
  [p \in InputPaths |->
     CASE p \in {"a.json", "b.json"} -> "file"
       [] p = "srcdir"               -> "dir"
       [] p = "/dev/null"            -> "special"
       [] OTHER                      -> "missing"]

os_path_exists_always(p) == TRUE

os_path_exists(p) == PathType[p] # "missing"
InputIsFile(p)    == PathType[p] = "file"
InputIsDir(p)     == PathType[p] = "dir"

(* The --output argument and what it resolves to.  "outdir" is an existing *)
(* directory, "./dream.lock" (the default) is not a directory.             *)
OutputArgs == {"./dream.lock", "outdir"}
OutputArgIsDir(o) == o = "outdir"
os_path_realpath(o) ==
  CASE o = "./dream.lock"     -> "/cwd/dream.lock"
    [] o = "outdir/dream.lock" -> "/cwd/outdir/dream.lock"
    [] OTHER                   -> o

\* Paths a lock file may be written to (the last one only by --arg_outputFile).
LockPaths == {"/cwd/dream.lock", "/cwd/outdir/dream.lock", "/cwd/other.lock"}

---------------------------------------------------------------------------
(* Files at the lock-file paths.  A JSON file is held as the document it   *)
(* parses to: json.dump followed by json.load gives the document back for  *)
(* the string-keyed objects of strings used here.                          *)

Absent    == [kind |-> "absent"]
Directory == [kind |-> "dir"]
Garbage   == [kind |-> "file", text |-> "not json"]
JsonFile(doc) == [kind |-> "file", json |-> doc]

os_path_exists_out(d, p) == d[p].kind # "absent"
os_path_isfile(d, p)     == d[p].kind = "file"
Parsable(f)              == "json" \in DOMAIN f

(* Lock documents.  A source entry is an object with an optional "hash";   *)
(* sourcesCombinedHash is text (see below), the empty string being <<>>.    *)
Src(h)     == [hash |-> h, url |-> "u"]
SrcNoHash  == [url |-> "u"]

\* what an earlier run left behind at the output path
StaleLock ==
  [generic |-> [sourcesCombinedHash |-> <<>>],
   sources |-> [s \in {"s1"} |-> Src("old")]]

\* what the translator of this run may write
TranslatorLocks ==
  { [generic |-> [sourcesCombinedHash |-> <<>>],
     sources |-> [s \in {"s1", "s2"} |-> Src("h")]],
    [generic |-> [sourcesCombinedHash |-> <<"x", "=">>],
     sources |-> [s \in {"s1"} |-> Src("h")]],
    [generic |-> [sourcesCombinedHash |-> <<>>],
     sources |-> [s \in {} |-> Src("h")]],
    [generic |-> [sourcesCombinedHash |-> <<>>],
     sources |-> [s \in {"s1", "s2"} |-> IF s = "s1" THEN Src("h") ELSE SrcNoHash]],
    [sources |-> [s \in {"s1"} |-> Src("h")]] }

NoLock == [sources |-> EmptyDict]

HasHash(source) == "hash" \in DOMAIN source

\* line 16 raises KeyError on a source without a "hash" key
StripRaises(l) == \E s \in DOMAIN l.sources : ~HasHash(l.sources[s])

strip_hashes_as_noop(l) == l

\* lines 14-16: del source['hash'] for every source
strip_hashes_from_lock(l) ==
  [l EXCEPT !.sources =
     [s \in DOMAIN l.sources |->
        [k \in (DOMAIN l.sources[s]) \ {"hash"} |-> l.sources[s][k]]]]

SetCombinedHash_keep(l, h) == l

\* lines 152 and 175: lock['generic']['sourcesCombinedHash'] = h
SetCombinedHash(l, h) == [l EXCEPT !.generic.sourcesCombinedHash = h]

---------------------------------------------------------------------------
(* Text: a string is the sequence of its characters.                      *)

FOD_PATH == <<"F", "O", "D", "_", "P", "A", "T", "H">>
Literal == FOD_PATH \o <<"=">>          \* the literal part of the pattern

StartsAt(t, i, lit) ==
  /\ i + Len(lit) - 1 <= Len(t)
  /\ \A k \in 1..Len(lit) : t[i + k - 1] = lit[k]

\* Ends j of a group (.*=) that starts right after the literal matched at i:
\* t[j] is "=" and, "." not matching a line break, no "\n" lies before it.
GroupEnds(t, i) ==
  { j \in (i + Len(Literal))..Len(t) :
      /\ t[j] = "="
      /\ \A k \in (i + Len(Literal))..j : t[k] # "\n" }

MatchStarts(t) ==
  { i \in 1..Len(t) : StartsAt(t, i, Literal) /\ GroupEnds(t, i) # {} }

NoMatch == [found |-> FALSE, group |-> <<>>]

\* line 166: re.search(r"FOD_PATH=(.*=)", text): the leftmost start, and
\* from it the longest group (".*" is greedy).
re_search(t) ==
  IF MatchStarts(t) = {} THEN NoMatch
  ELSE LET i == SetMin(MatchStarts(t))
           j == SetMax(GroupEnds(t, i))
       IN  [found |-> TRUE, group |-> SubSeq(t, i + Len(Literal), j)]

(* Build logs.  The translate run draws the log of the combined-sources    *)
(* build from BuildLogs; the extraction alone is run over AllLogs.         *)
Chunks == {FOD_PATH, <<"=">>, <<"a">>, <<" ">>, <<"\n">>}
AllLogs == {Flatten(cs) : cs \in SeqsUpTo(Chunks, MaxChunks)}

BuildLogs ==
  { <<"a", "\n">>,
    <<"a", " ">> \o Literal \o <<"a", "=", "=", "\n", "a">>,
    Literal \o <<"a", "\n">>,
    Literal \o <<"a", "=", " ", "a", "=", "\n">> }

---------------------------------------------------------------------------
(* The command line.  vars(args) is a function of attribute names; the     *)
(* attributes that parse_args registered for --arg_<name> flags are those  *)
(* of ArgFlags.  startswith("arg_") and argName[4:] are given by table.    *)

ArgFlags == {"arg_extra", "arg_outputFile"}
StartsWithArg(argName) == argName \in ArgFlags
DropPrefix(argName) ==
  CASE argName = "arg_extra"      -> "extra"
    [] argName = "arg_outputFile" -> "outputFile"

FlagValue(argName) ==
  CASE argName = "arg_extra"      -> "cli"
    [] argName = "arg_outputFile" -> "/cwd/other.lock"

Selectors == {"", "nodejs.package-lock"}

(* A command line is a sequence of tokens: an option with its value       *)
(* ("--arg_extra=cli", "-o outdir", "-c" with no value) or, with an empty  *)
(* option, a positional input path.                                        *)
Tok(o, v) == [opt |-> o, val |-> v]

\* the option string that parse_args registers for an attribute (line 243)
OptionOf(attr) ==
  CASE attr = "arg_extra"      -> "--arg_extra"
    [] attr = "arg_outputFile" -> "--arg_outputFile"

FlagOrder == <<"arg_extra", "arg_outputFile">>

\* a command line that parse_args turns into the namespace a
ArgvOf(a) ==
  [i \in 1..Len(a.input) |-> Tok("", a.input[i])]
  \o <<Tok("-o", a.output), Tok("-t", a.translator)>>
  \o (IF a.combined THEN <<Tok("-c", "")>> ELSE <<>>)
  \o [i \in 1..Len(filter(DOMAIN a, FlagOrder)) |->
        Tok(OptionOf(filter(DOMAIN a, FlagOrder)[i]),
            a[filter(DOMAIN a, FlagOrder)[i]])]

(* The catalog: a JSON object keeps the order of its keys, so an object is *)
(* the sequence of its (key, value) entries.                               *)
Entry(key, value) == [k |-> key, v |-> value]
ArgSpec(name) == Entry(name, [default |-> "d", examples |-> <<"e1", "e2">>])

DefaultCatalog ==
  << Entry("nodejs",
       << Entry("pure",
            << Entry("package-lock", <<ArgSpec("extra")>>) >>) >>) >>

CommandLines ==
  { DictUpdate([input |-> i, output |-> o, translator |-> t, combined |-> c],
               [a \in fl |-> FlagValue(a)]) :
      i \in SeqsUpTo(InputPaths, MaxInputs) \ {<<>>},
      o \in OutputArgs, t \in Selectors, c \in BOOLEAN, fl \in SUBSET ArgFlags }

\* lines 50-54
CollectSpecialArgs(a) ==
  [n \in {DropPrefix(argName) : argName \in {x \in DOMAIN a : StartsWithArg(x)}}
     |-> a[CHOOSE argName \in DOMAIN a :
              StartsWithArg(argName) /\ DropPrefix(argName) = n]]

\* lines 64-69
OutputPath(a) ==
  os_path_realpath(IF OutputArgIsDir(a.output)
                   THEN "outdir/dream.lock" ELSE a.output)

\* lines 72-78
MakeTranslatorInput(files, dirs, path, a, special) ==
  DictUpdate([inputFiles |-> files, inputDirectories |-> dirs,
              outputFile |-> path, selector |-> a.translator],
             special)

MergeDefaults_reversed(defaults, input) == DictUpdate(input, defaults)

\* lines 112-113: the defaults, updated with translatorInput
MergeDefaults(defaults, input) == DictUpdate(defaults, input)

(* The transient argument file.  json.dump writes at the file position,    *)
(* which seek(0) has put back to the start: a shorter document leaves the  *)
(* tail of the longer one behind it.  The length of a document is the sum  *)
(* of the lengths of its entries: key, value and punctuation.              *)
NoTmp == [state |-> "none", doc |-> EmptyDict, trailing |-> 0]

RECURSIVE SumLen(_)
SumLen(q) == IF q = <<>> THEN 0 ELSE Len(Head(q)) + 4 + SumLen(Tail(q))

ListFields == {"inputFiles", "inputDirectories"}
EntryLen(k, v) ==
  Len(k) + 6 + (IF k \in ListFields THEN SumLen(v) + 2 ELSE Len(v) + 2)

RECURSIVE JsonLenOver(_, _)
JsonLenOver(doc, keys) ==
  IF keys = {} THEN 2
  ELSE LET k == CHOOSE x \in keys : TRUE
       IN  EntryLen(k, doc[k]) + JsonLenOver(doc, keys \ {k})

JsonLen(doc) == JsonLenOver(doc, DOMAIN doc)

\* the second json.dump without the seek(0) before it
DumpAtStart_noseek(f, doc) ==
  [state |-> "open", doc |-> doc,
   trailing |-> IF f.state = "none" THEN 0 ELSE JsonLen(f.doc) + f.trailing]

DumpAtStart(f, doc) ==
  LET old == IF f.state = "none" THEN 0 ELSE JsonLen(f.doc) + f.trailing
  IN  [state |-> "open", doc |-> doc,
       trailing |-> IF old > JsonLen(doc) THEN old - JsonLen(doc) ELSE 0]

TempFile_leak(f) == f

\* line 85: leaving the with block, by any way, closes and deletes the file
TempFile_exit(f) == [f EXCEPT !.state = "deleted"]

(* External programs: what they may answer. *)
OracleDefaults == {[n \in S |-> "default"] : S \in SUBSET {"extra", "selector"}}
OracleResult(d) ==
  [json |-> [subsystem |-> "nodejs", type |-> "pure", name |-> "package-lock",
             SpecialArgsDefaults |-> d]]
OracleStdouts == {[text |-> "not json"]} \cup {OracleResult(d) : d \in OracleDefaults}
NoProc == [returncode |-> 0, started |-> FALSE]
Ran(p) == p.started

OracleFailed_never(p) == FALSE

\* line 100
OracleFailed(p) == p.returncode # 0

\* line 125
BuildFailed(p) == p.returncode # 0

\* what the translator leaves at the path it was told to write
TranslatorWrites ==
  {Absent, Directory, Garbage} \cup {JsonFile(l) : l \in TranslatorLocks}

(* The list command.  A text is the sequence of its lines (the pieces      *)
(* between newlines, so the empty string is one empty line) and a line is  *)
(* the sequence of the pieces an f-string puts one after the other.        *)

EmptyText == << <<>> >>

\* string concatenation: the last line of a runs on into the first of b
TextCat(a, b) ==
  SubSeq(a, 1, Len(a) - 1) \o << a[Len(a)] \o b[1] >> \o Tail(b)

RECURSIVE ConcatAll(_)
ConcatAll(texts) ==
  IF texts = <<>> THEN EmptyText
  ELSE TextCat(Head(texts), ConcatAll(Tail(texts)))

\* sep.join(items)
RECURSIVE str_join(_, _)
str_join(sep, items) ==
  IF items = <<>> THEN EmptyText
  ELSE IF Len(items) = 1 THEN items[1]
  ELSE TextCat(TextCat(items[1], sep), str_join(sep, Tail(items)))

Header == << <<"Available translators per build system">> >>
Bullet == "  - "

\* lines 32-37: the three lines of one special arg
ArgLines(argName, argData) ==
  << <<>>,
     <<"        --arg_", argName, " {value}">>,
     <<"            default: ", argData.default>>,
     <<"            examples: ">>
        \o str_join(<< <<", ">> >>,
                    [i \in 1..Len(argData.examples) |->
                       << <<argData.examples[i]>> >>])[1] >>

\* lines 25-38: what is appended to displayed for one translator
Item(trans_type, trans_name, translator) ==
  ConcatAll(
    << << <<trans_type, ".", trans_name>> >> >>
    \o (IF translator # <<>>
        THEN << << <<>>, <<"      special args:">> >> >>
             \o [i \in 1..Len(translator) |->
                   ArgLines(translator[i].k, translator[i].v)]
        ELSE <<>>))

\* lines 22-38
Displayed(trans_types) ==
  Flatten([i \in 1..Len(trans_types) |->
             [j \in 1..Len(trans_types[i].v) |->
                Item(trans_types[i].k, trans_types[i].v[j].k,
                     trans_types[i].v[j].v)]])

\* line 40: the text added to out for one subsystem
SubsystemText(subsystem, trans_types) ==
  TextCat(<< <<>>, <<>>, <<Bullet, subsystem, ".">> >>,
          str_join(<< <<>>, <<Bullet, subsystem, ".">> >>,
                   Displayed(trans_types)))

\* lines 20-40
RECURSIVE ListText(_, _)
ListText(text, catalog) ==
  IF catalog = <<>> THEN text
  ELSE ListText(TextCat(text, SubsystemText(Head(catalog).k, Head(catalog).v)),
                Tail(catalog))

\* JSON objects of at most n entries drawn from E, no key twice
RECURSIVE Objects(_, _)
Objects(E, n) ==
  IF n = 0 THEN {<<>>}
  ELSE {<<>>} \cup
       UNION { { <<e>> \o rest :
                   rest \in Objects({x \in E : x.k # e.k}, n - 1) } : e \in E }

TranslatorEntries == {Entry("yarn", <<ArgSpec("extra")>>), Entry("pip", <<>>)}
TypeEntries ==
  {Entry(t, v) : t \in {"pure", "impure"}, v \in Objects(TranslatorEntries, MaxEntries)}
SubsystemEntries ==
  {Entry(s, v) : s \in {"nodejs", "python"}, v \in Objects(TypeEntries, MaxEntries)}
Catalogs == Objects(SubsystemEntries, MaxEntries)

ListArgv == <<Tok("", "list")>>

Init ==
  /\ args \in CommandLines
  /\ argv = ArgvOf(args)
  /\ translators = DefaultCatalog
  /\ out = <<>>
  /\ writes = <<>>
  /\ pc = "start"
  /\ exitCode = -1
  /\ \E stale \in {Absent, JsonFile(StaleLock)} :
       disk = [p \in LockPaths |-> IF p = OutputPath(args) THEN stale ELSE Absent]
  /\ disk0 = disk
  /\ tmp = NoTmp
  /\ link = FALSE
  /\ calls = <<>>
  /\ specialArgs = EmptyDict
  /\ inputFiles = <<>>
  /\ inputDirectories = <<>>
  /\ output = ""
  /\ translatorInput = EmptyDict
  /\ procEval = NoProc
  /\ translatorInputWithDefaults = EmptyDict
  /\ procBuild = NoProc
  /\ translatorPath = ""
  /\ procTranslate = NoProc
  /\ lock = NoLock
  /\ proc = NoProc
  /\ match = NoMatch

SysExit_zero(code) == 0

\* lines 103 and 128: exit(1)
SysExit(code) == code

\* an uncaught exception (lines 59, 139, 170, or one raised by a library
\* call) ends the interpreter with status 1
Uncaught == 1

Terminate(code) == pc' = "done" /\ exitCode' = code

RemoveOutput_skip(d, path) == d

\* lines 81-82
RemoveOutput(d, path) ==
  IF os_path_exists_out(d, path) THEN [d EXCEPT ![path] = Absent] ELSE d

\* where the build-output link "translator" points, and what realpath
\* gives for it: its target, or the path itself once the link is gone
StoreArtifact == "/nix/store/translator"
os_path_realpath_link(l) == IF l THEN StoreArtifact ELSE "/cwd/translator"

RemoveThenResolve(l) == [path |-> os_path_realpath_link(FALSE), link |-> FALSE]

\* lines 131-132: translatorPath = os.path.realpath("translator"), then
\* os.remove("translator")
ResolveAndRemove(l) == [path |-> os_path_realpath_link(l), link |-> FALSE]

CombinedRequested_always(a) == TRUE

\* line 146: if args.combined
CombinedRequested(a) == a.combined

PersistLock_skip(d, path, l) == d

\* lines 153-154 and 176-177: open(output, 'w') and json.dump(lock, f)
PersistLock(d, path, l) == [d EXCEPT ![path] = JsonFile(l)]

FodReturnCodeChecked_yes(p) == p.returncode # 0

\* lines 157-166: the return code of the combined-sources build is not
\* looked at; only its stderr is
FodReturnCodeChecked(p) == FALSE

ReturnCodeChecked_yes(p) == p.returncode # 0

\* lines 133-135: sp.run is called without check=True and its result is
\* dropped, so no status of the translator raises
ReturnCodeChecked(p) == FALSE

\* line 138
OutputProduced(d, path) == os_path_isfile(d, path)

---------------------------------------------------------------------------
(* translate(), step by step *)

\* lines 48-62: collect the special args, check the inputs, split them
Validate ==
  /\ UNCHANGED writes
  /\ pc = "start"
  /\ specialArgs' = CollectSpecialArgs(args)
  /\ IF \E i \in 1..Len(args.input) : ~os_path_exists(args.input[i])
     THEN /\ Terminate(Uncaught)
          /\ UNCHANGED <<inputFiles, inputDirectories>>
     ELSE /\ inputFiles' = filter({p \in InputPaths : InputIsFile(p)}, args.input)
          /\ inputDirectories' = filter({p \in InputPaths : InputIsDir(p)}, args.input)
          /\ pc' = "prepare"
          /\ UNCHANGED exitCode
  /\ UNCHANGED <<argv, translators, out, args, disk0, disk, tmp, link, calls, output, translatorInput, procEval,
                 translatorInputWithDefaults, procBuild, translatorPath,
                 procTranslate, lock, proc, match>>

\* lines 64-91: output path, translator arguments, removal of the old
\* output, creation of the argument file
Prepare ==
  /\ UNCHANGED writes
  /\ pc = "prepare"
  /\ output' = OutputPath(args)
  /\ translatorInput' =
       MakeTranslatorInput(inputFiles, inputDirectories, output', args, specialArgs)
  /\ disk' = RemoveOutput(disk, output')
  /\ tmp' = DumpAtStart(tmp, translatorInput')
  /\ pc' = "oracle"
  /\ UNCHANGED <<argv, translators, out, args, disk0, exitCode, link, calls, specialArgs, inputFiles,
                 inputDirectories, procEval, translatorInputWithDefaults,
                 procBuild, translatorPath, procTranslate, lock, proc, match>>

\* lines 92-103: nix eval ... selectTranslatorJSON
SelectTranslator ==
  /\ UNCHANGED writes
  /\ pc = "oracle"
  /\ \E rc \in {0, 1}, so \in OracleStdouts :
       procEval' = [returncode |-> rc, started |-> TRUE, stdout |-> so]
  /\ calls' = Append(calls, "oracle")
  /\ IF OracleFailed(procEval')
     THEN Terminate(SysExit(1)) /\ tmp' = TempFile_exit(tmp)
     ELSE pc' = "resolved" /\ UNCHANGED <<exitCode, tmp>>
  /\ UNCHANGED <<argv, translators, out, args, disk0, disk, link, specialArgs, inputFiles, inputDirectories,
                 output, translatorInput, translatorInputWithDefaults,
                 procBuild, translatorPath, procTranslate, lock, proc, match>>

\* lines 105-115: parse the oracle's answer, merge the defaults, rewrite
\* the argument file
LoadDefaults ==
  /\ UNCHANGED writes
  /\ pc = "resolved"
  /\ IF "json" \notin DOMAIN procEval.stdout
     THEN /\ Terminate(Uncaught)
          /\ tmp' = TempFile_exit(tmp)
          /\ UNCHANGED translatorInputWithDefaults
     ELSE /\ translatorInputWithDefaults' =
               MergeDefaults(procEval.stdout.json.SpecialArgsDefaults, translatorInput)
          /\ tmp' = DumpAtStart(tmp, translatorInputWithDefaults')
          /\ pc' = "build"
          /\ UNCHANGED exitCode
  /\ UNCHANGED <<argv, translators, out, args, disk0, disk, link, calls, specialArgs, inputFiles,
                 inputDirectories, output, translatorInput, procEval, procBuild,
                 translatorPath, procTranslate, lock, proc, match>>

\* lines 117-128: nix build -o translator ... translateBin
BuildTranslator ==
  /\ UNCHANGED writes
  /\ pc = "build"
  /\ \E rc \in {0, 1} :
       /\ procBuild' = [returncode |-> rc, started |-> TRUE]
       /\ link' = IF rc = 0 THEN TRUE ELSE link
  /\ calls' = Append(calls, "build")
  /\ IF BuildFailed(procBuild')
     THEN Terminate(SysExit(1)) /\ tmp' = TempFile_exit(tmp)
     ELSE pc' = "execute" /\ UNCHANGED <<exitCode, tmp>>
  /\ UNCHANGED <<argv, translators, out, args, disk0, disk, specialArgs, inputFiles, inputDirectories, output,
                 translatorInput, procEval, translatorInputWithDefaults,
                 translatorPath, procTranslate, lock, proc, match>>

\* lines 130-135: resolve and remove the link, run the translator on the
\* argument file, leave the with block.  The translator writes, or not,
\* at the outputFile of the document it is given.
ExecuteTranslator ==
  /\ UNCHANGED writes
  /\ pc = "execute"
  /\ tmp' = TempFile_exit(tmp)
  /\ IF ~link
     THEN \* os.remove("translator") raises FileNotFoundError
          /\ Terminate(Uncaught)
          /\ UNCHANGED <<disk, link, calls, translatorPath, procTranslate>>
     ELSE /\ translatorPath' = ResolveAndRemove(link).path
          /\ link' = ResolveAndRemove(link).link
          /\ calls' = Append(calls, "translator")
          /\ \E rc \in {0, 1}, w \in TranslatorWrites :
               /\ procTranslate' = [returncode |-> rc, started |-> TRUE,
                                     exe |-> translatorPath']
               /\ disk' = IF w = Absent THEN disk
                          ELSE [disk EXCEPT ![tmp.doc["outputFile"]] = w]
          /\ IF ReturnCodeChecked(procTranslate')
             THEN Terminate(Uncaught)
             ELSE pc' = "check" /\ UNCHANGED exitCode
  /\ UNCHANGED <<argv, translators, out, args, disk0, specialArgs, inputFiles, inputDirectories, output,
                 translatorInput, procEval, translatorInputWithDefaults,
                 procBuild, lock, proc, match>>

\* lines 137-143: the output must be a file, and parse
ReadLock ==
  /\ UNCHANGED writes
  /\ pc = "check"
  /\ IF OutputProduced(disk, output) /\ Parsable(disk[output])
     THEN lock' = disk[output].json /\ pc' = "loaded" /\ UNCHANGED exitCode
     ELSE Terminate(Uncaught) /\ UNCHANGED lock
  /\ UNCHANGED <<argv, translators, out, args, disk0, disk, tmp, link, calls, specialArgs, inputFiles,
                 inputDirectories, output, translatorInput, procEval,
                 translatorInputWithDefaults, procBuild, translatorPath,
                 procTranslate, proc, match>>

\* Finish with the test of line 146 moved below line 154
Finish_strips ==
  /\ pc = "loaded"
  /\ ~CombinedRequested(args)
  /\ ~StripRaises(lock) /\ "generic" \in DOMAIN lock
  /\ lock' = SetCombinedHash(strip_hashes_from_lock(lock), <<>>)
  /\ disk' = PersistLock(disk, output, lock')
  /\ writes' = Append(writes, lock')
  /\ Terminate(0)
  /\ UNCHANGED <<argv, translators, out, args, disk0, tmp, link, calls,
                 specialArgs, inputFiles, inputDirectories, output,
                 translatorInput, procEval, translatorInputWithDefaults,
                 procBuild, translatorPath, procTranslate, proc, match>>

\* lines 146 and 180: no combined hash asked for
Finish ==
  /\ UNCHANGED writes
  /\ pc = "loaded"
  /\ ~CombinedRequested(args)
  /\ Terminate(0)
  /\ UNCHANGED <<argv, translators, out, args, disk0, disk, tmp, link, calls, specialArgs, inputFiles,
                 inputDirectories, output, translatorInput, procEval,
                 translatorInputWithDefaults, procBuild, translatorPath,
                 procTranslate, lock, proc, match>>

\* lines 146-154: strip the hashes, empty the combined hash, write the file
StripAndPersist ==
  /\ pc = "loaded"
  /\ CombinedRequested(args)
  /\ IF StripRaises(lock) \/ "generic" \notin DOMAIN lock
     THEN Terminate(Uncaught) /\ UNCHANGED <<lock, disk, writes>>
     ELSE /\ lock' = SetCombinedHash(strip_hashes_from_lock(lock), <<>>)
          /\ disk' = PersistLock(disk, output, lock')
          /\ writes' = Append(writes, lock')
          /\ pc' = "fod"
          /\ UNCHANGED exitCode
  /\ UNCHANGED <<argv, translators, out, args, disk0, tmp, link, calls, specialArgs, inputFiles,
                 inputDirectories, output, translatorInput, procEval,
                 translatorInputWithDefaults, procBuild, translatorPath,
                 procTranslate, proc, match>>

\* lines 156-163: nix build ... fetchSources
BuildCombined ==
  /\ UNCHANGED writes
  /\ pc = "fod"
  /\ \E rc \in {0, 1}, log \in BuildLogs :
       proc' = [returncode |-> rc, started |-> TRUE, stderr |-> log]
  /\ calls' = Append(calls, "fod")
  /\ IF FodReturnCodeChecked(proc')
     THEN Terminate(Uncaught)
     ELSE pc' = "extract" /\ UNCHANGED exitCode
  /\ UNCHANGED <<argv, translators, out, args, disk0, disk, tmp, link, specialArgs, inputFiles,
                 inputDirectories, output, translatorInput, procEval,
                 translatorInputWithDefaults, procBuild, translatorPath,
                 procTranslate, lock, match>>

\* lines 165-180: find the hash in the log, store it, write the file
ExtractHash ==
  /\ pc = "extract"
  /\ match' = re_search(proc.stderr)
  /\ IF ~match'.found
     THEN Terminate(Uncaught) /\ UNCHANGED <<lock, disk, writes>>
     ELSE /\ lock' = SetCombinedHash(lock, match'.group)
          /\ disk' = PersistLock(disk, output, lock')
          /\ writes' = Append(writes, lock')
          /\ Terminate(0)
  /\ UNCHANGED <<argv, translators, out, args, disk0, tmp, link, calls, specialArgs, inputFiles,
                 inputDirectories, output, translatorInput, procEval,
                 translatorInputWithDefaults, procBuild, translatorPath,
                 procTranslate, proc>>

Next ==
  \/ Validate
  \/ Prepare
  \/ SelectTranslator
  \/ LoadDefaults
  \/ BuildTranslator
  \/ ExecuteTranslator
  \/ ReadLock
  \/ Finish
  \/ StripAndPersist
  \/ BuildCombined
  \/ ExtractHash

Spec == Init /\ [][Next]_vars

---------------------------------------------------------------------------
(* The list command on its own: main() has parsed "list" and calls         *)
(* list_translators with a catalog of Catalogs.                            *)

InitList ==
  /\ argv = ListArgv
  /\ args = EmptyDict
  /\ translators \in Catalogs
  /\ out = <<>>
  /\ writes = <<>>
  /\ pc = "list"
  /\ exitCode = -1
  /\ disk = [p \in LockPaths |-> Absent]
  /\ disk0 = disk
  /\ tmp = NoTmp
  /\ link = FALSE
  /\ calls = <<>>
  /\ specialArgs = EmptyDict
  /\ inputFiles = <<>>
  /\ inputDirectories = <<>>
  /\ output = ""
  /\ translatorInput = EmptyDict
  /\ procEval = NoProc
  /\ translatorInputWithDefaults = EmptyDict
  /\ procBuild = NoProc
  /\ translatorPath = ""
  /\ procTranslate = NoProc
  /\ lock = NoLock
  /\ proc = NoProc
  /\ match = NoMatch

\* lines 19-41
ListTranslators ==
  /\ pc = "list"
  /\ out' = ListText(Header, translators)
  /\ pc' = "done"
  /\ exitCode' = 0
  /\ UNCHANGED <<argv, translators, writes, args, disk0, disk, tmp, link, calls,
                 specialArgs, inputFiles, inputDirectories, output,
                 translatorInput, procEval, translatorInputWithDefaults,
                 procBuild, translatorPath, procTranslate, lock, proc, match>>

NextList == ListTranslators

SpecList == InitList /\ [][NextList]_vars

----------------------------------------------------------------------------
(* The hash extraction on its own: the run stands at line 165, after the   *)
(* combined-sources build of a plain combined run, with any log of         *)
(* AllLogs on the build's stderr.                                          *)

ExtractArgs ==
  [input |-> <<"a.json">>, output |-> "./dream.lock",
   translator |-> "nodejs.package-lock", combined |-> TRUE]

ExtractLock ==
  SetCombinedHash(
    strip_hashes_from_lock(
      [generic |-> [sourcesCombinedHash |-> <<>>],
       sources |-> [s \in {"s1", "s2"} |-> Src("h")]]),
    <<>>)

InitExtract ==
  /\ args = ExtractArgs
  /\ argv = ArgvOf(args)
  /\ translators = DefaultCatalog
  /\ out = <<>>
  /\ writes = <<ExtractLock>>
  /\ pc = "extract"
  /\ exitCode = -1
  /\ disk0 = [p \in LockPaths |-> Absent]
  /\ disk = [p \in LockPaths |->
               IF p = OutputPath(args) THEN JsonFile(ExtractLock) ELSE Absent]
  /\ specialArgs = CollectSpecialArgs(args)
  /\ inputFiles = <<"a.json">>
  /\ inputDirectories = <<>>
  /\ output = OutputPath(args)
  /\ translatorInput =
       MakeTranslatorInput(inputFiles, inputDirectories, output, args, specialArgs)
  /\ procEval = [returncode |-> 0, started |-> TRUE, stdout |-> OracleResult(EmptyDict)]
  /\ translatorInputWithDefaults = MergeDefaults(EmptyDict, translatorInput)
  /\ tmp = TempFile_exit(DumpAtStart(DumpAtStart(NoTmp, translatorInput),
                                     translatorInputWithDefaults))
  /\ link = FALSE
  /\ calls = <<"oracle", "build", "translator", "fod">>
  /\ procBuild = [returncode |-> 0, started |-> TRUE]
  /\ translatorPath = StoreArtifact
  /\ procTranslate = [returncode |-> 0, started |-> TRUE, exe |-> StoreArtifact]
  /\ lock = ExtractLock
  /\ \E rc \in {0, 1}, log \in AllLogs :
       proc = [returncode |-> rc, started |-> TRUE, stderr |-> log]
  /\ match = NoMatch

NextExtract == ExtractHash

SpecExtract == InitExtract /\ [][NextExtract]_vars

---------------------------------------------------------------------------
(* Properties *)

Done      == pc = "done"
Range(q)  == {q[i] : i \in 1..Len(q)}
NoSourceHash(doc) == \A s \in DOMAIN doc.sources : ~HasHash(doc.sources[s])

\* the file at the output path is a lock file without per-source hashes
\* whose combined hash is h
LockOnDisk(h) ==
  /\ os_path_isfile(disk, output)
  /\ Parsable(disk[output])
  /\ "generic" \in DOMAIN disk[output].json
  /\ NoSourceHash(disk[output].json)
  /\ disk[output].json.generic.sourcesCombinedHash = h

\* C1: when a run with the combined flag ends with status 0, the lock file
\* at the output path has no source with a hash, and its
\* sourcesCombinedHash is non-empty and is the text that the search of the
\* combined-sources build's stderr matched.
C1_CombinedSuccess ==
  (Done /\ exitCode = 0 /\ args.combined) =>
     /\ Ran(proc)
     /\ match = re_search(proc.stderr)
     /\ match.found
     /\ match.group # <<>>
     /\ LockOnDisk(match.group)

C1_Witness ==
  /\ Done /\ exitCode = 0 /\ args.combined
  /\ Ran(procTranslate)
  /\ DOMAIN disk[output].json.sources = {"s1", "s2"}
  /\ disk[output].json.generic.sourcesCombinedHash = <<"a", "=", "=">>

\* C2: from the first write of the consolidation up to the second, and in
\* a run that failed in between (no hash found in the log), the lock file
\* on disk is the first checkpoint: no source has a hash, the combined hash
\* is the empty string, and it is the document the run holds in memory.
C2_FailureLeavesCheckpointA ==
  (pc \in {"fod", "extract"} \/ (Done /\ exitCode # 0 /\ Ran(proc))) =>
     /\ LockOnDisk(<<>>)
     /\ disk[output].json = lock

C2_Witness ==
  /\ Done /\ exitCode = 1 /\ Ran(proc) /\ ~match.found
  /\ DOMAIN disk[output].json.sources = {"s1", "s2"}
  /\ proc.stderr = Literal \o <<"a", "\n">>

\* C3: whatever was at the output path before the run, nothing is there
\* from the creation of the argument file until the translator starts, and
\* what is there or was read after the translator ran is not the old file.
C3_OldOutputRemoved ==
  /\ pc \in {"oracle", "resolved", "build", "execute"} =>
        ~os_path_exists_out(disk, output)
  /\ Ran(procTranslate) =>
        /\ disk[output] # JsonFile(StaleLock)
        /\ lock # StaleLock

C3_Witness ==
  /\ pc = "loaded"
  /\ disk0[output] = JsonFile(StaleLock)
  /\ disk[output] # disk0[output]

\* C4: once the translator has run and the check of line 138 is passed,
\* a run whose output path holds no file has ended with status 1, and a
\* run whose output path holds a parsable file has read it, both whatever
\* the translator's exit status was.
C4_OnlyOutputFileDecides ==
  (Ran(procTranslate) /\ pc # "check") =>
     /\ ~os_path_isfile(disk, output) => (Done /\ exitCode = 1)
     /\ (os_path_isfile(disk, output) /\ Parsable(disk[output])) => lock # NoLock

C4_Witness ==
  /\ pc = "loaded"
  /\ procTranslate.returncode = 1
  /\ lock = disk[output].json

\* C5: the translator build runs only after an oracle call that returned
\* 0, the translator only after a build that returned 0; after a non-zero
\* oracle or build the run is over, that call is the last one made and was
\* made once, and nothing is at the output path.
C5_FailureGating ==
  /\ Ran(procBuild) => (Ran(procEval) /\ procEval.returncode = 0)
  /\ Ran(procTranslate) => (Ran(procBuild) /\ procBuild.returncode = 0)
  /\ (Ran(procEval) /\ procEval.returncode # 0) =>
        (Done /\ calls = <<"oracle">> /\ ~os_path_exists_out(disk, output))
  /\ (Ran(procBuild) /\ procBuild.returncode # 0) =>
        (Done /\ calls = <<"oracle", "build">> /\ ~os_path_exists_out(disk, output))

C5_Witness ==
  /\ Done
  /\ Ran(procBuild) /\ procBuild.returncode = 1
  /\ disk0[output] = JsonFile(StaleLock)

\* the four fields translate() computes for the translator (lines 72-77)
Computed ==
  [inputFiles |-> inputFiles, inputDirectories |-> inputDirectories,
   outputFile |-> output, selector |-> args.translator]

OracleGave == procEval.stdout.json.SpecialArgsDefaults

\* C6: in the document written for the translator every name of the
\* oracle's defaults, of the computed fields and of the special args is
\* present and no other; its value is the special arg's if the command
\* line gave one, else the computed field's if it is one, else the
\* oracle's default.
C6_MergePrecedence ==
  pc \in {"build", "execute"} =>
     /\ tmp.state = "open"
     /\ tmp.doc = translatorInputWithDefaults
     /\ DOMAIN tmp.doc =
          (DOMAIN OracleGave) \cup (DOMAIN Computed) \cup (DOMAIN specialArgs)
     /\ \A k \in DOMAIN tmp.doc :
          tmp.doc[k] = IF k \in DOMAIN specialArgs THEN specialArgs[k]
                       ELSE IF k \in DOMAIN Computed THEN Computed[k]
                       ELSE OracleGave[k]

C6_Witness ==
  /\ pc = "execute"
  /\ DOMAIN specialArgs = {"extra", "outputFile"}
  /\ DOMAIN OracleGave = {"extra", "selector"}
  /\ tmp.doc["extra"] = "cli"
  /\ tmp.doc["outputFile"] = "/cwd/other.lock"
  /\ tmp.doc["selector"] = args.translator

(* The extraction as the claim C7 words it: a token is FOD_PATH= followed  *)
(* by a hash, a non-empty run of characters of the hash alphabet (letters  *)
(* and "="); the hash of a token runs up to the first character outside    *)
(* the alphabet.                                                          *)
HashAlphabet == {"a", "=", "F", "O", "D", "P", "A", "T", "H"}
TokenStarts(t) ==
  { i \in 1..Len(t) :
      /\ StartsAt(t, i, Literal)
      /\ i + Len(Literal) <= Len(t)
      /\ t[i + Len(Literal)] \in HashAlphabet }
TokenHash(t, i) ==
  LET from == i + Len(Literal)
      to   == SetMax({j \in from..Len(t) : \A k \in from..j : t[k] \in HashAlphabet})
  IN  SubSeq(t, from, to)
FirstTokenHash(t) == TokenHash(t, SetMin(TokenStarts(t)))

\* C7: after the extraction, if the log holds a token FOD_PATH=<hash> the
\* run has found and stored exactly the hash of the first token, whatever
\* is around the token; if the log holds no token, the run has failed and
\* the combined hash on disk is still empty.
C7_ExtractsFirstTokenHash ==
  (Done /\ Ran(proc)) =>
     IF TokenStarts(proc.stderr) # {}
     THEN /\ match.found
          /\ match.group = FirstTokenHash(proc.stderr)
          /\ LockOnDisk(FirstTokenHash(proc.stderr))
     ELSE /\ ~match.found
          /\ exitCode = 1
          /\ LockOnDisk(<<>>)

\* C8: the validation fails exactly when some input path does not exist;
\* when it passes, every input path is in exactly one of inputFiles and
\* inputDirectories, a file in the first and a directory in the second,
\* and both keep the order of the input list.
ValidationFailed == Done /\ exitCode = 1 /\ output = ""
C8_ValidatorPartitions ==
  pc # "start" =>
     /\ ValidationFailed <=> (\E p \in Range(args.input) : PathType[p] = "missing")
     /\ ~ValidationFailed =>
          /\ \A p \in Range(args.input) :
               (p \in Range(inputFiles)) # (p \in Range(inputDirectories))
          /\ \A p \in Range(inputFiles) : PathType[p] = "file"
          /\ \A p \in Range(inputDirectories) : PathType[p] = "dir"
          /\ inputFiles = filter(Range(inputFiles), args.input)
          /\ inputDirectories = filter(Range(inputDirectories), args.input)

\* C9: when the run is over and the argument file was ever created, the
\* file is gone, whichever step ended the run; outside the with block
\* (lines 85-135) it never exists.
C9_TempFileReleased ==
  /\ (Done /\ tmp.state # "none") => tmp.state = "deleted"
  /\ pc \in {"check", "loaded", "fod", "extract"} => tmp.state = "deleted"

C9_Witness ==
  /\ Done /\ exitCode = 1
  /\ Ran(procEval) /\ procEval.returncode = 0 /\ ~Ran(procBuild)
  /\ tmp.state = "deleted"

\* C10: a finished run has status 1 if an input path was missing, the
\* oracle or the translator build returned non-zero, no lock file was at
\* the output path after the translator, or the log held no hash; it has
\* status 0 only if a lock file is at the output path and, with the
\* combined flag, that file is the second checkpoint.  An unfinished run
\* has no status.
C10_ExitCodes ==
  /\ ~Done => exitCode = -1
  /\ Done =>
       /\ exitCode \in {0, 1}
       /\ (\E p \in Range(args.input) : ~os_path_exists(p)) => exitCode = 1
       /\ (Ran(procEval) /\ procEval.returncode # 0) => exitCode = 1
       /\ (Ran(procBuild) /\ procBuild.returncode # 0) => exitCode = 1
       /\ (Ran(procTranslate) /\ ~os_path_isfile(disk, output)) => exitCode = 1
       /\ (Ran(proc) /\ ~re_search(proc.stderr).found) => exitCode = 1
       /\ exitCode = 0 =>
            /\ Ran(procTranslate)
            /\ os_path_isfile(disk, output) /\ Parsable(disk[output])
            /\ args.combined =>
                 (Ran(proc) /\ match.found /\ LockOnDisk(match.group))

C10_Witness ==
  /\ Done /\ exitCode = 1
  /\ Ran(procTranslate) /\ procTranslate.returncode = 0
  /\ ~os_path_isfile(disk, output)

\* the lock file the translator writes in the plain case: a hash on every
\* source, no combined hash
PerSourceLock ==
  [generic |-> [sourcesCombinedHash |-> <<>>],
   sources |-> [s \in {"s1", "s2"} |-> Src("h")]]

\* C11: without the combined flag no step after the translator changes a
\* file or writes the output, and a run that ends with status 0 leaves at
\* the output path the document it read there; so a lock file written with
\* a hash on every source and an empty combined hash stays so.
C11_NoRewriteWithoutCombined ==
  /\ [][(Ran(procTranslate) /\ ~args.combined) =>
          (disk' = disk /\ writes' = writes)]_vars
  /\ []((Done /\ exitCode = 0 /\ ~args.combined) =>
          (writes = <<>> /\ disk[output] = JsonFile(lock)))

C11_Witness ==
  /\ Done /\ exitCode = 0 /\ ~args.combined
  /\ disk[output] = JsonFile(PerSourceLock)
  /\ \A s \in DOMAIN disk[output].json.sources : HasHash(disk[output].json.sources[s])

\* C12 as stated: after a combined-sources build that returned non-zero
\* the run has ended with status 1 and the second checkpoint was never
\* written.
C12_NonZeroBuildIsFatal ==
  (Done /\ Ran(proc) /\ proc.returncode # 0) =>
     (exitCode = 1 /\ Len(writes) = 1)

\* C12, amended: the return code of the combined-sources build decides
\* nothing.  A run that made the build ends with status 0 and the second
\* checkpoint on disk exactly when the pattern matches the build's stderr,
\* and with status 1 and only the first checkpoint written otherwise.
C12_ReturnCodeIgnored ==
  (Done /\ Ran(proc)) =>
     /\ proc.returncode \in {0, 1}
     /\ (exitCode = 0) <=> re_search(proc.stderr).found
     /\ re_search(proc.stderr).found =>
          (Len(writes) = 2 /\ LockOnDisk(re_search(proc.stderr).group))
     /\ ~re_search(proc.stderr).found => (exitCode = 1 /\ Len(writes) = 1)

C12_Witness ==
  /\ Done /\ Ran(proc) /\ proc.returncode = 1
  /\ exitCode = 0
  /\ Len(writes) = 2

\* C15: the combined-sources build is called only after a first write of
\* a lock without hashes and with an empty combined hash, which is what the
\* output path holds when the build starts; the output is written at most
\* twice, the second time only after a match, with the first document
\* completed by the matched hash; a run with the combined flag that ends
\* with status 0 wrote it twice.
C15_ConsolidationOrder ==
  /\ Ran(proc) =>
       /\ Len(writes) >= 1
       /\ NoSourceHash(writes[1])
       /\ writes[1].generic.sourcesCombinedHash = <<>>
  /\ pc = "fod" => (writes = <<lock>> /\ LockOnDisk(<<>>))
  /\ Len(writes) <= 2
  /\ Len(writes) = 2 =>
       /\ match.found /\ match = re_search(proc.stderr)
       /\ writes[2] = SetCombinedHash(writes[1], match.group)
       /\ disk[output] = JsonFile(writes[2])
  /\ (Done /\ exitCode = 0 /\ args.combined) => Len(writes) = 2

C15_Witness ==
  /\ Done /\ Len(writes) = 2
  /\ DOMAIN writes[1].sources = {"s1", "s2"}
  /\ writes[2].generic.sourcesCombinedHash = <<"a", "=", " ", "a", "=">>

ExternalCalls == <<"oracle", "build", "translator", "fod">>

\* C16: the external calls made so far are a beginning of the list oracle,
\* translator build, translator, combined-sources build, so each is made at
\* most once and in that order; a call is made with the result of the one
\* before it at hand; the combined-sources build is made only with the
\* combined flag and a lock file read.
C16_CallOrder ==
  /\ \E n \in 0..Len(ExternalCalls) : calls = SubSeq(ExternalCalls, 1, n)
  /\ Ran(procEval) <=> Len(calls) >= 1
  /\ Ran(procBuild) <=> Len(calls) >= 2
  /\ Ran(procTranslate) <=> Len(calls) >= 3
  /\ Ran(proc) <=> Len(calls) >= 4
  /\ Ran(proc) => (args.combined /\ lock # NoLock /\ Len(writes) >= 1)

C16_Witness ==
  /\ Done /\ exitCode = 0
  /\ calls = ExternalCalls

\* C17: a run that ended because an input path is missing ended with
\* status 1 and changed nothing: every lock-file path holds what it held
\* before the run, no argument file was created, no link, no external call
\* and no write was made.
C17_ValidationHasNoSideEffects ==
  (Done /\ \E p \in Range(args.input) : PathType[p] = "missing") =>
     /\ exitCode = 1
     /\ disk = disk0
     /\ tmp.state = "none"
     /\ ~link
     /\ calls = <<>>
     /\ writes = <<>>

C17_Witness ==
  /\ Done
  /\ \E p \in Range(args.input) : PathType[p] = "missing"
  /\ disk[OutputPath(args)] = JsonFile(StaleLock)

\* C18: when the oracle is about to be called the argument file is open
\* and holds the computed fields overlaid with the special args and nothing
\* else; when the translator is about to be run the same file is open and
\* holds that document laid over the oracle's defaults, with no byte of the
\* first document left around it.
C18_ArgumentFileWellFormed ==
  /\ pc = "oracle" =>
       /\ tmp.state = "open" /\ tmp.trailing = 0
       /\ tmp.doc = DictUpdate(Computed, specialArgs)
  /\ pc = "execute" =>
       /\ tmp.state = "open" /\ tmp.trailing = 0
       /\ tmp.doc = DictUpdate(OracleGave, DictUpdate(Computed, specialArgs))

C18_Witness ==
  /\ pc = "execute"
  /\ DOMAIN OracleGave = {"extra", "selector"}
  /\ DOMAIN specialArgs = {"extra"}
  /\ JsonLen(tmp.doc) = JsonLen(translatorInput)

\* C19: the translator is run through the artifact the link pointed to,
\* resolved while the link was there; once the translator step is passed
\* the link is gone, in every run whose translator build returned 0.
C19_LinkResolvedThenRemoved ==
  /\ Ran(procTranslate) =>
       (translatorPath = StoreArtifact /\ procTranslate.exe = StoreArtifact)
  /\ pc \in {"check", "loaded", "fod", "extract"} => ~link
  /\ (Done /\ Ran(procBuild) /\ procBuild.returncode = 0) => ~link

C19_Witness ==
  /\ pc = "check"
  /\ procTranslate.exe = StoreArtifact
  /\ ~link

\* C20: whatever flags were given, the outputFile of the document in the
\* argument file, at the oracle call and at the translator run, is the
\* path that translate() cleared, checks and reads.
C20_OutputPathAgreement ==
  /\ tmp.state = "open" => tmp.doc["outputFile"] = output
  /\ Ran(procEval) => translatorInput["outputFile"] = output
  /\ Ran(procTranslate) => translatorInputWithDefaults["outputFile"] = output

\* the (subsystem, type, name) triples of a catalog, in iteration order
Triples(catalog) ==
  Flatten([i \in 1..Len(catalog) |->
    Flatten([j \in 1..Len(catalog[i].v) |->
      [n \in 1..Len(catalog[i].v[j].v) |->
         [subsystem |-> catalog[i].k, type |-> catalog[i].v[j].k,
          name |-> catalog[i].v[j].v[n].k]]])])

IsBulletLine(line) == line # <<>> /\ line[1] = Bullet
BulletLines(text) == SelectSeq(text, IsBulletLine)

\* C13: the bullet lines of the listing are, in order, one line
\* "subsystem.type.name" for each triple of the catalog, and no other.
C13_ListsEveryTripleOnce ==
  Done =>
    BulletLines(out) =
      [i \in 1..Len(Triples(translators)) |->
         <<Bullet, Triples(translators)[i].subsystem, ".",
           Triples(translators)[i].type, ".", Triples(translators)[i].name>>]

\* the value of a key in a JSON object
Lookup(obj, key) == (CHOOSE e \in Range(obj) : e.k = key).v

\* the special-arg names the catalog declares for a translator
Declared(catalog, r) ==
  {a.k : a \in Range(Lookup(Lookup(Lookup(catalog, r.subsystem), r.type), r.name))}

\* C14: once collected, the special args are exactly the arg_ flags of the
\* command line, name to value; and a run that has resolved its translator
\* and gone on holds only special args that the catalog declares for it.
C14_CollectedThenValidated ==
  /\ pc # "start" =>
       \A attr \in ArgFlags :
          /\ DropPrefix(attr) \in DOMAIN specialArgs
               <=> \E i \in 1..Len(argv) : argv[i].opt = OptionOf(attr)
          /\ \A i \in 1..Len(argv) :
               argv[i].opt = OptionOf(attr) =>
                 specialArgs[DropPrefix(attr)] = argv[i].val
  /\ pc \in {"build", "execute", "check", "loaded", "fod", "extract"} =>
       DOMAIN specialArgs \subseteq Declared(translators, procEval.stdout.json)

=============================================================================
